---- MODULE Spec2Model ----
(***************************************************************************)
(* Event model and replay protocol of sts (src/sts/replay_event.py).       *)
(*                                                                         *)
(* Python values are modelled as follows: int and str are TLA+ integers    *)
(* and strings; a tuple is [t |-> "tuple", v |-> <<...>>], a JSON/Python   *)
(* list is [t |-> "list", v |-> <<...>>]; a label prefix + str(id) is the  *)
(* pair <<prefix, id>>, so that int(label[1:]) is label[2].                *)
(***************************************************************************)
EXTENDS Integers, Sequences, FiniteSets, TLC

VARIABLES
  superlog,     \* replay: the records of the log file still as read, in file order
  log,          \* replay: the decoded events, in file order
  cursor,       \* replay: index of the event the driver is at
  pc,           \* replay: "decoding", "parse_error", "running", "yield", "done",
                \*         "raised", "exited", "aborted"
  sim,          \* replay: the live simulation (collaborators' state)
  calls,        \* replay history: number of proceed calls per log index
  lastIdx,      \* replay history: log index of the latest proceed call
  lastRet,      \* replay history: what the latest proceed call returned
  deferred,     \* replay history: some proceed returned False so far
  exit_status,  \* replay: status the process exited with (0: still alive)
  reported,     \* replay: the label reported when the run was aborted ("none" before)
  label_gen,    \* registry: next value of Event._label_gen
  all_label_ids,\* registry: Event._all_label_ids
  events,       \* registry: the events constructed so far, in order
  thr,          \* registry: per-thread position inside Event.__init__
  ev_a,         \* codec: an event instance
  ev_b,         \* codec: a second event instance
  record,       \* codec: the record to_json produced ("none" before)
  decoded,      \* codec: the event from_json produced ("none" before)
  eq_result     \* codec: result of ev_a == ev_b ("none" before)

replayVars == <<superlog, log, cursor, pc, sim, calls, lastIdx, lastRet, deferred, exit_status,
                reported>>
registryVars == <<label_gen, all_label_ids, events, thr>>
codecVars == <<ev_a, ev_b, record, decoded, eq_result>>
vars == <<replayVars, registryVars, codecVars>>

(***************************************************************************)
(* Bounds of the model.                                                    *)
(***************************************************************************)
MaxLogLen == 2      \* longest log replayed
MaxCalls == 2       \* proceed calls counted per event (the count saturates)
MaxEvents == 3      \* events constructed against one label registry
MaxSuffix == 2      \* explicit labels carry a numeric suffix in 1..MaxSuffix
NumThreads == 2     \* threads constructing events concurrently

(***************************************************************************)
(* Python values.                                                          *)
(***************************************************************************)
PyTuple(s) == [t |-> "tuple", v |-> s]
PyList(s) == [t |-> "list", v |-> s]
SyncTime(sec, usec) == [t |-> "SyncTime", v |-> <<sec, usec>>]
PyNone == [t |-> "NoneType", v |-> 0]
IsNone(x) == x.t = "NoneType"

\* exit(5) in CheckInvariants.proceed
ExitStatus == 5

(***************************************************************************)
(* Event constructors.  Event.__init__ with an explicit label and time     *)
(* stores both; no InputEvent subclass passes dependent_labels on, so      *)
(* Event.__init__ always stores the default [].                            *)
(***************************************************************************)
Event(class, label, time) ==
  [class |-> class, label |-> label, time |-> time, dependent_labels |-> PyList(<<>>)]

SwitchFailure(dpid, label, time) ==
  [class |-> "SwitchFailure", label |-> label, time |-> time,
   dependent_labels |-> PyList(<<>>), dpid |-> dpid]

SwitchRecovery(dpid, label, time) ==
  [class |-> "SwitchRecovery", label |-> label, time |-> time,
   dependent_labels |-> PyList(<<>>), dpid |-> dpid]

LinkFailure(start_dpid, start_port_no, end_dpid, end_port_no, label, time) ==
  [class |-> "LinkFailure", label |-> label, time |-> time,
   dependent_labels |-> PyList(<<>>),
   start_dpid |-> start_dpid, start_port_no |-> start_port_no,
   end_dpid |-> end_dpid, end_port_no |-> end_port_no]

LinkRecovery(start_dpid, start_port_no, end_dpid, end_port_no, label, time) ==
  [class |-> "LinkRecovery", label |-> label, time |-> time,
   dependent_labels |-> PyList(<<>>),
   start_dpid |-> start_dpid, start_port_no |-> start_port_no,
   end_dpid |-> end_dpid, end_port_no |-> end_port_no]

ControllerFailure(controller_id, label, time) ==
  [class |-> "ControllerFailure", label |-> label, time |-> time,
   dependent_labels |-> PyList(<<>>), controller_id |-> controller_id]

ControllerRecovery(controller_id, label, time) ==
  [class |-> "ControllerRecovery", label |-> label, time |-> time,
   dependent_labels |-> PyList(<<>>), controller_id |-> controller_id]

HostMigration(old_ingress_dpid, old_ingress_port_no, new_ingress_dpid, new_ingress_port_no, label, time) ==
  [class |-> "HostMigration", label |-> label, time |-> time,
   dependent_labels |-> PyList(<<>>),
   old_ingress_dpid |-> old_ingress_dpid,
   old_ingress_port_no |-> old_ingress_port_no,
   new_ingress_dpid |-> new_ingress_dpid,
   new_ingress_port_no |-> new_ingress_port_no]

PolicyChange(request_type, label, time) ==
  [class |-> "PolicyChange", label |-> label, time |-> time,
   dependent_labels |-> PyList(<<>>), request_type |-> request_type]

TrafficInjection(label, time) ==
  [class |-> "TrafficInjection", label |-> label, time |-> time,
   dependent_labels |-> PyList(<<>>)]

WaitTime(wait_time, label, time) ==
  [class |-> "WaitTime", label |-> label, time |-> time,
   dependent_labels |-> PyList(<<>>), wait_time |-> wait_time]

CheckInvariants(fail_on_error, label, time, invariant_check) ==
  [class |-> "CheckInvariants", label |-> label, time |-> time,
   dependent_labels |-> PyList(<<>>),
   fail_on_error |-> fail_on_error, invariant_check |-> invariant_check]

ControlChannelBlock(dpid, controller_id, label, time) ==
  [class |-> "ControlChannelBlock", label |-> label, time |-> time,
   dependent_labels |-> PyList(<<>>), dpid |-> dpid, controller_id |-> controller_id]

ControlChannelUnblock(dpid, controller_id, label, time) ==
  [class |-> "ControlChannelUnblock", label |-> label, time |-> time,
   dependent_labels |-> PyList(<<>>), dpid |-> dpid, controller_id |-> controller_id]

\* sts.fingerprints: DPFingerprint(dict) / OFFingerprint(dict) wrap a dict,
\* Fingerprint.to_dict() gives it back.
PyDict(d) == [t |-> "dict", v |-> d]
DPFingerprint(d) == [t |-> "DPFingerprint", v |-> d.v]
OFFingerprint(d) == [t |-> "OFFingerprint", v |-> d.v]
to_dict(fp) == PyDict(fp.v)
IsFingerprint(x) == x.t \in {"DPFingerprint", "OFFingerprint"}

Wrap(kind, d) == IF kind = "DPFingerprint" THEN DPFingerprint(d) ELSE OFFingerprint(d)

\* DataplaneDrop.__init__ / DataplanePermit.__init__ / ControlMessageReceive.__init__:
\* a list [tag, dict] becomes the tuple (tag, kind(dict)); after that, anything
\* that is not a tuple is wrapped and tagged with the class name.
NormFingerprint(class, fingerprint, kind) ==
  LET f1 == IF fingerprint.t = "list"
            THEN PyTuple(<<fingerprint.v[1], Wrap(kind, fingerprint.v[2])>>)
            ELSE fingerprint
  IN IF f1.t = "dict" \/ f1.t # "tuple"
     THEN PyTuple(<<class, Wrap(kind, f1)>>)
     ELSE f1

DataplaneDrop(fingerprint, label, time) ==
  [class |-> "DataplaneDrop", label |-> label, time |-> time,
   dependent_labels |-> PyList(<<>>),
   fingerprint |-> NormFingerprint("DataplaneDrop", fingerprint, "DPFingerprint")]

DataplanePermit(fingerprint, label, time) ==
  [class |-> "DataplanePermit", label |-> label, time |-> time,
   dependent_labels |-> PyList(<<>>),
   fingerprint |-> NormFingerprint("DataplanePermit", fingerprint, "DPFingerprint")]

ControlMessageReceive(dpid, controller_id, fingerprint, label, time) ==
  [class |-> "ControlMessageReceive", label |-> label, time |-> time,
   dependent_labels |-> PyList(<<>>), dpid |-> dpid, controller_id |-> controller_id,
   fingerprint |-> NormFingerprint("ControlMessageReceive", fingerprint, "OFFingerprint")]

ControllerStateChange(controller_id, fingerprint, name, value, label, time) ==
  [class |-> "ControllerStateChange", label |-> label, time |-> time,
   dependent_labels |-> PyList(<<>>), controller_id |-> controller_id,
   fingerprint |-> IF fingerprint.t = "list"
                   THEN PyTuple(<<fingerprint.v[1], OFFingerprint(fingerprint.v[2])>>)
                   ELSE fingerprint,
   name |-> name, value |-> value]

DeterministicValue(label, time) == Event("DeterministicValue", label, time)

PendingReceive(dpid, controller_id, fingerprint) ==
  [dpid |-> dpid, controller_id |-> controller_id, fingerprint |-> fingerprint]

PendingStateChange(controller_id, time, fingerprint, name, value) ==
  [controller_id |-> controller_id, time |-> time, fingerprint |-> fingerprint,
   name |-> name, value |-> value]

(***************************************************************************)
(* The live simulation: the collaborators of section 6 at their interface. *)
(***************************************************************************)
\* how many times each thing happened: a function from the things that
\* happened at least once to their counts
NoCounts == [x \in {} |-> 0]
Count(counts, x) == IF x \in DOMAIN counts THEN counts[x] ELSE 0
Incr(counts, x) ==
  [y \in DOMAIN counts \cup {x} |-> IF y = x THEN Count(counts, x) + 1 ELSE counts[y]]

Switches == {7, 8, 15}
\* a dpid the topology holds no switch of
UnknownDpid == 9
Controller1 == PyTuple(<<"127.0.0.1", 8899>>)
Link(start_switch, start_port_no, end_switch, end_port_no) ==
  <<start_switch, start_port_no, end_switch, end_port_no>>

Raise(kind, simulation) == [ret |-> kind, sim |-> simulation]
Return(value, simulation) == [ret |-> value, sim |-> simulation]
IsException(ret) == ret \in {"RuntimeError", "KeyError", "ValueError", "SystemExit", "TimeoutError"}
\* what recover_switch may raise
RecoverErrors == {"TimeoutError", "RuntimeError"}

\* topology.get_switch: the switch of that dpid, or none
has_switch(simulation, dpid) == dpid \in Switches

crash_switch(simulation, sw) ==
  [simulation EXCEPT !.crashed = @ \cup {sw}]

\* recover_switch reconnects the switch; when the connect times out, or fails
\* otherwise, the switch stays failed and the error reaches the caller
recover_switch(simulation, sw, raised) ==
  LET called == [simulation EXCEPT !.topology_calls = Incr(@, <<"recover_switch", sw, raised>>)]
  IN  IF raised # "None" THEN Raise(raised, called)
      ELSE Return("None", [called EXCEPT !.crashed = @ \ {sw}])

sever_link(simulation, link) ==
  [simulation EXCEPT !.severed = @ \cup {link},
                     !.topology_calls = Incr(@, <<"sever_link", link, "None">>)]

repair_link(simulation, link) ==
  [simulation EXCEPT !.severed = @ \ {link},
                     !.topology_calls = Incr(@, <<"repair_link", link, "None">>)]

kill_controller(simulation, controller) ==
  [simulation EXCEPT !.dead = @ \cup {controller}]

reboot_controller(simulation, controller) ==
  [simulation EXCEPT !.dead = @ \ {controller}]

migrate_host(simulation, old_dpid, old_port_no, new_dpid, new_port_no) ==
  IF simulation.host_at = <<old_dpid, old_port_no>>
  THEN Return("None", [simulation EXCEPT !.host_at = <<new_dpid, new_port_no>>])
  ELSE Raise("ValueError", simulation)

inject_trace_event(simulation) ==
  [simulation EXCEPT !.injected = @ + 1]

\* patch_panel.get_buffered_dp_event: the buffered event of that fingerprint, or None
get_buffered_dp_event(simulation, fingerprint) ==
  IF fingerprint \in simulation.buffered THEN fingerprint ELSE PyNone

drop_dp_event(simulation, dp_event) ==
  [simulation EXCEPT !.buffered = @ \ {dp_event}, !.dropped = @ \cup {dp_event}]

permit_dp_event(simulation, dp_event) ==
  [simulation EXCEPT !.buffered = @ \ {dp_event}, !.permitted = @ \cup {dp_event}]

message_waiting(simulation, pending_receive) ==
  pending_receive \in simulation.waiting

schedule(simulation, pending_receive) ==
  [simulation EXCEPT !.waiting = @ \ {pending_receive},
                     !.scheduled = @ \cup {pending_receive},
                     !.schedule_calls = Incr(@, pending_receive)]

state_change_pending(simulation, pending_state_change) ==
  pending_state_change \in simulation.pending

gc_pending_state_change(simulation, pending_state_change) ==
  [simulation EXCEPT !.pending = @ \ {pending_state_change},
                     !.gc_calls = Incr(@, pending_state_change)]

(***************************************************************************)
(* proceed, one operator per class.  The result is [ret, sim]: ret is what *)
(* the call returns ("True", "False", "None") or the exception it raises,  *)
(* sim is the simulation after the call.                                   *)
(***************************************************************************)
InternalEvent_proceed(self, simulation) ==
  Return("None", simulation)

SwitchFailure_proceed(self, simulation) ==
  IF ~has_switch(simulation, self.dpid) THEN Raise("KeyError", simulation)
  ELSE Return("True", crash_switch(simulation, self.dpid))

\* SwitchRecovery.proceed without the except clause
SwitchRecovery_proceed_uncaught(self, simulation, raised) ==
  IF ~has_switch(simulation, self.dpid) THEN Raise("KeyError", simulation)
  ELSE LET r == recover_switch(simulation, self.dpid, raised)
       IN  IF r.ret # "None" THEN r ELSE Return("True", r.sim)

SwitchRecovery_proceed(self, simulation, raised) ==
  IF ~has_switch(simulation, self.dpid) THEN Raise("KeyError", simulation)
  ELSE LET r == recover_switch(simulation, self.dpid, raised)
       IN  IF r.ret \notin {"None", "TimeoutError"} THEN r ELSE Return("True", r.sim)

get_link_ok(link_event, simulation) ==
  has_switch(simulation, link_event.start_dpid) /\ has_switch(simulation, link_event.end_dpid)

get_link(link_event, simulation) ==
  Link(link_event.start_dpid, link_event.start_port_no,
       link_event.end_dpid, link_event.end_port_no)

\* LinkFailure.proceed reporting a link that cannot be resolved as not ready
LinkFailure_proceed_retry(self, simulation) ==
  IF ~get_link_ok(self, simulation) THEN Return("False", simulation)
  ELSE Return("True", sever_link(simulation, get_link(self, simulation)))

LinkFailure_proceed(self, simulation) ==
  IF ~get_link_ok(self, simulation) THEN Raise("KeyError", simulation)
  ELSE Return("True", sever_link(simulation, get_link(self, simulation)))

\* LinkRecovery.proceed with LinkFailure.proceed's call left in
LinkRecovery_proceed_sever(self, simulation) ==
  IF ~get_link_ok(self, simulation) THEN Raise("KeyError", simulation)
  ELSE Return("True", sever_link(simulation, get_link(self, simulation)))

LinkRecovery_proceed(self, simulation) ==
  IF ~get_link_ok(self, simulation) THEN Raise("KeyError", simulation)
  ELSE Return("True", repair_link(simulation, get_link(self, simulation)))

ControllerFailure_proceed(self, simulation) ==
  Return("True", kill_controller(simulation, self.controller_id))

ControllerRecovery_proceed(self, simulation) ==
  Return("True", reboot_controller(simulation, self.controller_id))

\* HostMigration.proceed handing the new attachment point first
HostMigration_proceed_swapped(self, simulation) ==
  LET r == migrate_host(simulation, self.new_ingress_dpid, self.new_ingress_port_no,
                        self.old_ingress_dpid, self.old_ingress_port_no)
  IN  IF IsException(r.ret) THEN r ELSE Return("True", r.sim)

HostMigration_proceed(self, simulation) ==
  LET r == migrate_host(simulation, self.old_ingress_dpid, self.old_ingress_port_no,
                        self.new_ingress_dpid, self.new_ingress_port_no)
  IN  IF IsException(r.ret) THEN r ELSE Return("True", r.sim)

PolicyChange_proceed(self, simulation) ==
  Return("None", simulation)

\* TrafficInjection.proceed reporting a missing trace as not ready
TrafficInjection_proceed_retry(self, simulation) ==
  IF simulation.dataplane_trace = "None" THEN Return("False", simulation)
  ELSE Return("True", inject_trace_event(simulation))

TrafficInjection_proceed(self, simulation) ==
  IF simulation.dataplane_trace = "None" THEN Raise("RuntimeError", simulation)
  ELSE Return("True", inject_trace_event(simulation))

WaitTime_proceed(self, simulation) ==
  Return("True", simulation)

\* self.invariant_check(simulation): the predicate is evaluated against the
\* simulation and reports violations or none; checks keeps what each
\* evaluation reported
call_invariant_check(simulation, violations) ==
  [simulation EXCEPT !.checks = Append(@, violations)]

\* CheckInvariants.proceed exiting on violations whatever fail_on_error is
CheckInvariants_proceed_strict(self, simulation, violations) ==
  LET checked == call_invariant_check(simulation, violations)
  IN  IF violations THEN Raise("SystemExit", checked)
      ELSE Return("True", checked)

\* violations: whether invariant_check(simulation) reports any
CheckInvariants_proceed(self, simulation, violations) ==
  LET checked == call_invariant_check(simulation, violations)
  IN  IF violations /\ self.fail_on_error THEN Raise("SystemExit", checked)
      ELSE Return("True", checked)

\* ControlChannelBlock.proceed with an already blocked channel reported as not
\* ready instead of raised
ControlChannelBlock_proceed_retry(self, simulation) ==
  IF ~has_switch(simulation, self.dpid) THEN Raise("KeyError", simulation)
  ELSE LET connection == <<self.dpid, self.controller_id>>
       IN  IF connection \in simulation.blocked
           THEN Return("False", simulation)
           ELSE Return("True", [simulation EXCEPT !.blocked = @ \cup {connection}])

ControlChannelBlock_proceed(self, simulation) ==
  IF ~has_switch(simulation, self.dpid) THEN Raise("KeyError", simulation)
  ELSE LET connection == <<self.dpid, self.controller_id>>
       IN  IF connection \in simulation.blocked
           THEN Raise("RuntimeError", simulation)
           ELSE Return("True", [simulation EXCEPT !.blocked = @ \cup {connection}])

\* ControlChannelUnblock.proceed without the test of currently_blocked
ControlChannelUnblock_proceed_untested(self, simulation) ==
  IF ~has_switch(simulation, self.dpid) THEN Raise("KeyError", simulation)
  ELSE LET connection == <<self.dpid, self.controller_id>>
       IN  Return("True", [simulation EXCEPT !.blocked = @ \ {connection}])

ControlChannelUnblock_proceed(self, simulation) ==
  IF ~has_switch(simulation, self.dpid) THEN Raise("KeyError", simulation)
  ELSE LET connection == <<self.dpid, self.controller_id>>
       IN  IF connection \notin simulation.blocked
           THEN Raise("RuntimeError", simulation)
           ELSE Return("True", [simulation EXCEPT !.blocked = @ \ {connection}])

\* DataplaneDrop.proceed raising when the event is not buffered
DataplaneDrop_proceed_raise(self, simulation) ==
  LET dp_event == get_buffered_dp_event(simulation, self.fingerprint.v[2])
  IN  IF ~IsNone(dp_event)
      THEN Return("True", drop_dp_event(simulation, dp_event))
      ELSE Raise("RuntimeError", simulation)

DataplaneDrop_proceed(self, simulation) ==
  LET dp_event == get_buffered_dp_event(simulation, self.fingerprint.v[2])
  IN  IF ~IsNone(dp_event)
      THEN Return("True", drop_dp_event(simulation, dp_event))
      ELSE Return("False", simulation)

\* DataplanePermit.proceed with DataplaneDrop.proceed's call left in
DataplanePermit_proceed_drop(self, simulation) ==
  LET dp_event == get_buffered_dp_event(simulation, self.fingerprint.v[2])
  IN  IF ~IsNone(dp_event)
      THEN Return("True", drop_dp_event(simulation, dp_event))
      ELSE Return("False", simulation)

DataplanePermit_proceed(self, simulation) ==
  LET dp_event == get_buffered_dp_event(simulation, self.fingerprint.v[2])
  IN  IF ~IsNone(dp_event)
      THEN Return("True", permit_dp_event(simulation, dp_event))
      ELSE Return("False", simulation)

\* ControlMessageReceive.proceed scheduling without asking message_waiting
ControlMessageReceive_proceed_eager(self, simulation) ==
  LET pending_receive == PendingReceive(self.dpid, self.controller_id, self.fingerprint.v[2])
  IN  Return("True", schedule(simulation, pending_receive))

ControlMessageReceive_proceed(self, simulation) ==
  LET pending_receive == PendingReceive(self.dpid, self.controller_id, self.fingerprint.v[2])
  IN  IF message_waiting(simulation, pending_receive)
      THEN Return("True", schedule(simulation, pending_receive))
      ELSE Return("False", simulation)

\* ControllerStateChange.proceed without the gc_pending_state_change call
ControllerStateChange_proceed_nogc(self, simulation) ==
  LET pending_state_change ==
        PendingStateChange(self.controller_id, self.time, self.fingerprint,
                           self.name, self.value)
  IN  IF state_change_pending(simulation, pending_state_change)
      THEN Return("True", simulation)
      ELSE Return("False", simulation)

ControllerStateChange_proceed(self, simulation) ==
  LET pending_state_change ==
        PendingStateChange(self.controller_id, self.time, self.fingerprint,
                           self.name, self.value)
  IN  IF state_change_pending(simulation, pending_state_change)
      THEN Return("True", gc_pending_state_change(simulation, pending_state_change))
      ELSE Return("False", simulation)

\* method resolution: each class's own proceed; DeterministicValue inherits
\* InternalEvent.proceed.  nd is the outcome of what the call cannot decide
\* itself (recover_switch failing, invariant_check finding violations), error
\* is what recover_switch raises when it fails.
proceed(self, simulation, nd, error) ==
  CASE self.class = "SwitchFailure" -> SwitchFailure_proceed(self, simulation)
    [] self.class = "SwitchRecovery" -> SwitchRecovery_proceed(self, simulation, IF nd THEN error ELSE "None")
    [] self.class = "LinkFailure" -> LinkFailure_proceed(self, simulation)
    [] self.class = "LinkRecovery" -> LinkRecovery_proceed(self, simulation)
    [] self.class = "ControllerFailure" -> ControllerFailure_proceed(self, simulation)
    [] self.class = "ControllerRecovery" -> ControllerRecovery_proceed(self, simulation)
    [] self.class = "HostMigration" -> HostMigration_proceed(self, simulation)
    [] self.class = "PolicyChange" -> PolicyChange_proceed(self, simulation)
    [] self.class = "TrafficInjection" -> TrafficInjection_proceed(self, simulation)
    [] self.class = "WaitTime" -> WaitTime_proceed(self, simulation)
    [] self.class = "CheckInvariants" -> CheckInvariants_proceed(self, simulation, nd)
    [] self.class = "ControlChannelBlock" -> ControlChannelBlock_proceed(self, simulation)
    [] self.class = "ControlChannelUnblock" -> ControlChannelUnblock_proceed(self, simulation)
    [] self.class = "DataplaneDrop" -> DataplaneDrop_proceed(self, simulation)
    [] self.class = "DataplanePermit" -> DataplanePermit_proceed(self, simulation)
    [] self.class = "ControlMessageReceive" -> ControlMessageReceive_proceed(self, simulation)
    [] self.class = "ControllerStateChange" -> ControllerStateChange_proceed(self, simulation)
    [] self.class = "DeterministicValue" -> InternalEvent_proceed(self, simulation)

(***************************************************************************)
(* The logs replayed: every sequence of 1..MaxLogLen events drawn from one *)
(* instance of each concrete class (two of HostMigration and of            *)
(* CheckInvariants).  The event at position i carries the label "e<i>" or  *)
(* "i<i>" and the time (i, 0).  Templates 21 to 25 are further instances,  *)
(* of a second channel and of events that name a switch the topology does  *)
(* not hold; the fault logs draw from them.                                *)
(***************************************************************************)
TemplateIds == 1..20
Fp1 == PyDict(1)
Fp2 == PyDict(2)
StateFp == PyTuple(<<"ControllerStateChange", OFFingerprint(Fp1)>>)
check_correspondence == [t |-> "function", name |-> "check_correspondence", code |-> 1]

Template(k, n, time) ==
  CASE k = 1 -> SwitchFailure(8, <<"e", n>>, time)
    [] k = 2 -> SwitchRecovery(8, <<"e", n>>, time)
    [] k = 3 -> LinkFailure(8, 3, 15, 2, <<"e", n>>, time)
    [] k = 4 -> LinkRecovery(8, 3, 15, 2, <<"e", n>>, time)
    [] k = 5 -> ControllerFailure(Controller1, <<"e", n>>, time)
    [] k = 6 -> ControllerRecovery(Controller1, <<"e", n>>, time)
    [] k = 7 -> HostMigration(7, 1, 8, 99, <<"e", n>>, time)
    [] k = 8 -> HostMigration(8, 99, 7, 101, <<"e", n>>, time)
    [] k = 9 -> PolicyChange("reserved", <<"e", n>>, time)
    [] k = 10 -> TrafficInjection(<<"e", n>>, time)
    [] k = 11 -> WaitTime(1, <<"e", n>>, time)
    [] k = 12 -> CheckInvariants(FALSE, <<"e", n>>, time, check_correspondence)
    [] k = 13 -> CheckInvariants(TRUE, <<"e", n>>, time, check_correspondence)
    [] k = 14 -> ControlChannelBlock(8, Controller1, <<"e", n>>, time)
    [] k = 15 -> ControlChannelUnblock(8, Controller1, <<"e", n>>, time)
    [] k = 16 -> DataplaneDrop(PyList(<<"DataplaneDrop", Fp1>>), <<"e", n>>, time)
    [] k = 17 -> DataplanePermit(PyList(<<"DataplanePermit", Fp1>>), <<"e", n>>, time)
    [] k = 18 -> ControlMessageReceive(8, Controller1, PyList(<<"ControlMessageReceive", Fp1>>), <<"i", n>>, time)
    [] k = 19 -> ControllerStateChange(Controller1, StateFp, "master", 1, <<"i", n>>, time)
    [] k = 20 -> DeterministicValue(<<"i", n>>, time)
    [] k = 21 -> ControlChannelBlock(7, Controller1, <<"e", n>>, time)
    [] k = 22 -> ControlChannelUnblock(7, Controller1, <<"e", n>>, time)
    [] k = 23 -> LinkFailure(8, 3, UnknownDpid, 2, <<"e", n>>, time)
    [] k = 24 -> LinkRecovery(UnknownDpid, 3, 15, 2, <<"e", n>>, time)
    [] k = 25 -> SwitchRecovery(UnknownDpid, <<"e", n>>, time)

Logs ==
  UNION {{[i \in 1..n |-> Template(f[i], i, SyncTime(i, 0))] : f \in [1..n -> TemplateIds]} : n \in 1..MaxLogLen}

\* what the collaborators may come to hold while the replay runs
DpEvents == {DPFingerprint(Fp1), DPFingerprint(Fp2)}
Receives == {PendingReceive(8, Controller1, OFFingerprint(Fp1)),
             PendingReceive(7, Controller1, OFFingerprint(Fp1))}
StateChanges ==
  {PendingStateChange(Controller1, log[i].time, StateFp, "master", 1) :
     i \in {j \in 1..Len(log) : log[j].class = "ControllerStateChange"}}

InitSim(trace) ==
  [crashed |-> {}, severed |-> {}, dead |-> {}, blocked |-> {},
   host_at |-> <<7, 1>>, buffered |-> {}, dropped |-> {}, permitted |-> {},
   waiting |-> {}, scheduled |-> {}, pending |-> {},
   dataplane_trace |-> trace, injected |-> 0, checks |-> <<>>,
   arrivals |-> NoCounts, schedule_calls |-> NoCounts,
   observations |-> NoCounts, gc_calls |-> NoCounts, topology_calls |-> NoCounts]

RegistryIdle ==
  /\ label_gen = 1 /\ all_label_ids = {} /\ events = <<>> /\ thr = <<>>

CodecIdle ==
  /\ ev_a = "none" /\ ev_b = "none" /\ record = "none" /\ decoded = "none"
  /\ eq_result = "none"

ReplayIdle ==
  /\ superlog = <<>> /\ log = <<>> /\ cursor = 1 /\ pc = "idle" /\ sim = "none" /\ calls = <<>>
  /\ lastIdx = 0 /\ lastRet = "none" /\ deferred = FALSE /\ exit_status = 0
  /\ reported = "none"

Init ==
  /\ superlog = <<>>
  /\ log \in Logs
  /\ cursor = 1
  /\ pc = "running"
  /\ \E trace \in {"None", "trace"} :
       /\ (trace = "None") => (\E i \in 1..Len(log) : log[i].class = "TrafficInjection")
       /\ sim = InitSim(trace)
  /\ calls = [i \in 1..Len(log) |-> 0]
  /\ lastIdx = 0
  /\ lastRet = "none"
  /\ deferred = FALSE
  /\ exit_status = 0
  /\ reported = "none"
  /\ RegistryIdle
  /\ CodecIdle

(***************************************************************************)
(* The Replay Driver (section 4.4): proceed on the event at the cursor;    *)
(* advance when the result is true, yield and call again when it is not,   *)
(* stop when proceed raises.                                               *)
(***************************************************************************)
\* MayContinue of a driver that advances on any result that is not an exception
MayContinue_any(ret) == TRUE

MayContinue(ret) == ret = "True"

ReplayStep ==
  /\ pc = "running"
  /\ \E nd \in BOOLEAN, error \in RecoverErrors :
       LET r == proceed(log[cursor], sim, nd, error)
       IN  /\ sim' = r.sim
           /\ calls' = [calls EXCEPT ![cursor] = IF @ < MaxCalls THEN @ + 1 ELSE @]
           /\ lastIdx' = cursor
           /\ lastRet' = r.ret
           /\ deferred' = (deferred \/ r.ret = "False")
           /\ IF r.ret = "SystemExit"
              THEN pc' = "exited" /\ exit_status' = ExitStatus /\ cursor' = cursor
              ELSE /\ exit_status' = exit_status
                   /\ IF IsException(r.ret)
                      THEN pc' = "raised" /\ cursor' = cursor
                      ELSE IF MayContinue(r.ret)
                           THEN /\ cursor' = cursor + 1
                                /\ pc' = IF cursor + 1 > Len(log) THEN "done" ELSE "running"
                           ELSE pc' = "yield" /\ cursor' = cursor
  /\ UNCHANGED <<superlog, log, reported, registryVars, codecVars>>

Resume ==
  /\ pc = "yield"
  /\ pc' = "running"
  /\ UNCHANGED <<superlog, log, cursor, sim, calls, lastIdx, lastRet, deferred,
                 exit_status, reported, registryVars, codecVars>>

Live == pc \in {"running", "yield"}

\* The replay consults a collaborator only through the events of the log: a
\* collaborator no event of the log consults is left as it is.
Consulted(classes) == \E i \in 1..Len(log) : log[i].class \in classes

DpEventBuffered ==
  /\ Live
  /\ Consulted({"DataplaneDrop", "DataplanePermit"})
  /\ \E fp \in DpEvents \ sim.buffered : sim' = [sim EXCEPT !.buffered = @ \cup {fp}]
  /\ UNCHANGED <<superlog, log, cursor, pc, calls, lastIdx, lastRet, deferred,
                 exit_status, reported, registryVars, codecVars>>

MessageArrives ==
  /\ Live
  /\ Consulted({"ControlMessageReceive"})
  /\ \E m \in Receives \ sim.waiting :
       sim' = [sim EXCEPT !.waiting = @ \cup {m}, !.arrivals = Incr(@, m)]
  /\ UNCHANGED <<superlog, log, cursor, pc, calls, lastIdx, lastRet, deferred,
                 exit_status, reported, registryVars, codecVars>>

StateChangeObserved ==
  /\ Live
  /\ \E c \in StateChanges \ sim.pending :
       sim' = [sim EXCEPT !.pending = @ \cup {c}, !.observations = Incr(@, c)]
  /\ UNCHANGED <<superlog, log, cursor, pc, calls, lastIdx, lastRet, deferred,
                 exit_status, reported, registryVars, codecVars>>

Next ==
  \/ ReplayStep
  \/ Resume
  \/ DpEventBuffered
  \/ MessageArrives
  \/ StateChangeObserved

Spec == Init /\ [][Next]_vars

\* The driver is scheduled again and again while it has something to do, and
\* every occurrence the log waits for eventually reaches its collaborator and
\* stays there until an event consumes it.
FairSpec ==
  /\ Spec
  /\ WF_vars(ReplayStep)
  /\ WF_vars(Resume)
  /\ WF_vars(DpEventBuffered)
  /\ WF_vars(MessageArrives)
  /\ WF_vars(StateChangeObserved)

(***************************************************************************)
(* Claims about the replay protocol.                                       *)
(***************************************************************************)
Stopped == pc \in {"raised", "exited"}
NoEffectClasses == {"DeterministicValue", "PolicyChange"}

\* C1: Order preservation.  In a run where no proceed has returned False
\* (every precondition held on the first try) and none has raised, proceed
\* has been invoked at most once on each event, on a prefix of the log (file
\* order), and once the run is done exactly once on each.
C1_OrderPreservation ==
  (~deferred /\ ~Stopped) =>
    /\ \A i \in 1..Len(log) : calls[i] <= 1
    /\ \A i, j \in 1..Len(log) : (i < j /\ calls[j] > 0) => calls[i] > 0
    /\ pc = "done" => \A i \in 1..Len(log) : calls[i] = 1

\* C2: Retry without reorder.  After a proceed that did not return true the
\* cursor still designates the event that was called, the next proceed call is
\* on that same event, and no event past the cursor has ever been called.
C2_RetryWithoutReorder ==
  /\ [](lastRet \in {"False", "None"} => cursor = lastIdx)
  /\ [](\A j \in 1..Len(log) : j > cursor => calls[j] = 0)
  /\ [][(ReplayStep /\ lastRet \in {"False", "None"}) => lastIdx' = lastIdx]_vars

\* C2 witness: an event has been retried in place after returning False while
\* a later event of the log is still waiting.
C2_Witness ==
  /\ pc = "yield"
  /\ lastRet = "False"
  /\ calls[cursor] >= 2
  /\ cursor < Len(log)
  /\ calls[cursor + 1] = 0

\* C3: proceed on a DeterministicValue and on a PolicyChange returns true on
\* the first call, so the driver advances past the event without retrying.
C3_NoEffectEventsReturnTrue ==
  (lastIdx > 0 /\ log[lastIdx].class \in NoEffectClasses) =>
    (lastRet = "True" /\ cursor > lastIdx /\ calls[lastIdx] = 1)

\* C4: Termination.  Under fair scheduling of the driver, with every awaited
\* occurrence eventually present until consumed, a run in which no proceed
\* raises eventually has its cursor past the last event.
C4_Termination == <>(pc = "done" \/ Stopped)

\* C5: Fatal short-circuit.  proceed of ControlChannelBlock on a blocked
\* channel, and of ControlChannelUnblock on a channel that is not blocked,
\* raises: the set of blocked channels is unchanged, the cursor stays on the
\* event, the run has stopped for good and no later event is ever called.
ChannelOf(e) == <<e.dpid, e.controller_id>>
InTargetState(e, simulation) ==
  \/ e.class = "ControlChannelBlock" /\ ChannelOf(e) \in simulation.blocked
  \/ e.class = "ControlChannelUnblock" /\ ChannelOf(e) \notin simulation.blocked

C5_FatalShortCircuit ==
  /\ [][(ReplayStep /\ InTargetState(log[cursor], sim)) =>
          /\ lastRet' = "RuntimeError"
          /\ pc' = "raised"
          /\ sim'.blocked = sim.blocked
          /\ cursor' = cursor]_vars
  /\ [][pc = "raised" => UNCHANGED vars]_vars
  /\ [](pc = "raised" => \A j \in 1..Len(log) : j > cursor => calls[j] = 0)

\* C5 witness: the run stopped on a ControlChannelBlock whose channel the
\* previous event had already blocked.
C5_Witness ==
  /\ pc = "raised"
  /\ lastRet = "RuntimeError"
  /\ log[cursor].class = "ControlChannelBlock"
  /\ ChannelOf(log[cursor]) \in sim.blocked
  /\ cursor = 2

\* the log of scenario A: a LinkFailure then a LinkRecovery of the same link,
\* both of whose switches the topology knows
ScenarioA ==
  /\ Len(log) = 2
  /\ log[1].class = "LinkFailure"
  /\ log[2].class = "LinkRecovery"
  /\ get_link(log[1], sim) = get_link(log[2], sim)
  /\ get_link_ok(log[1], sim)

\* C15: End-to-end scenario A.  Replaying [LinkFailure(l), LinkRecovery(l)]
\* makes exactly two proceed calls, both returning true, with no error and no
\* retry; the link is severed after the first call and before the second,
\* and is up when the run is done.
C15_ScenarioA ==
  ScenarioA =>
    /\ ~Stopped
    /\ pc # "yield"
    /\ lastIdx > 0 => lastRet = "True"
    /\ cursor = 1 => calls = <<0, 0>>
    /\ cursor = 2 => (calls = <<1, 0>> /\ get_link(log[1], sim) \in sim.severed)
    /\ pc = "done" => (calls = <<1, 1>> /\ get_link(log[1], sim) \notin sim.severed)
    /\ sim.severed \subseteq {get_link(log[1], sim)}

\* C15 witness: the run of scenario A is done.
C15_Witness ==
  /\ ScenarioA
  /\ pc = "done"
  /\ sim.severed = {}

Old(e) == <<e.old_ingress_dpid, e.old_ingress_port_no>>
New(e) == <<e.new_ingress_dpid, e.new_ingress_port_no>>

\* a chain of migrations of the host: the first from where the host is
\* attached when the run starts, each next one from where the previous one
\* left it
MigrationChain ==
  /\ \A i \in 1..Len(log) : log[i].class = "HostMigration"
  /\ Old(log[1]) = InitSim("trace").host_at
  /\ \A i \in 2..Len(log) : Old(log[i]) = New(log[i - 1])

\* C16: End-to-end scenario C.  Replaying a chain of HostMigration events
\* moves the host step by step without error: after the i-th event the host
\* is attached at that event's new (dpid, port), so at the end of the run at
\* the last event's.
C16_ScenarioC ==
  MigrationChain =>
    /\ ~Stopped
    /\ pc # "yield"
    /\ cursor = 1 => sim.host_at = Old(log[1])
    /\ \A i \in 1..Len(log) : cursor = i + 1 => sim.host_at = New(log[i])
    /\ pc = "done" => sim.host_at = New(log[Len(log)])

\* C16 witness: the chain 7/1 -> 8/99 -> 7/101 has been replayed.
C16_Witness ==
  /\ MigrationChain
  /\ Len(log) = 2
  /\ pc = "done"
  /\ sim.host_at = <<7, 101>>

\* C17: CheckInvariants outcome.  proceed evaluates the predicate exactly
\* once; if it reports violations and fail_on_error is set the process exits
\* with status 5 and no later event is ever called; otherwise proceed
\* returns true and the driver advances.
C17_CheckInvariantsOutcome ==
  /\ [][(ReplayStep /\ log[cursor].class = "CheckInvariants") =>
          /\ Len(sim'.checks) = Len(sim.checks) + 1
          /\ IF sim'.checks[Len(sim'.checks)] /\ log[cursor].fail_on_error
             THEN /\ lastRet' = "SystemExit"
                  /\ pc' = "exited"
                  /\ exit_status' = ExitStatus
                  /\ cursor' = cursor
             ELSE /\ lastRet' = "True"
                  /\ cursor' = cursor + 1
                  /\ exit_status' = exit_status]_vars
  /\ [][pc = "exited" => UNCHANGED vars]_vars
  /\ [](pc = "exited" => \A j \in 1..Len(log) : j > cursor => calls[j] = 0)
  /\ [](exit_status \in {0, ExitStatus})

\* C17 witness: the process exited on a violation under fail_on_error with an
\* event of the log still to come, after an earlier check that found
\* nothing or was not to fail.
C17_Witness ==
  /\ pc = "exited"
  /\ exit_status = ExitStatus
  /\ log[cursor].class = "CheckInvariants"
  /\ log[cursor].fail_on_error
  /\ sim.checks # <<>>
  /\ sim.checks[Len(sim.checks)]
  /\ cursor < Len(log)
  /\ calls[cursor + 1] = 0

\* C18: TrafficInjection.  Without a dataplane trace proceed raises, is not
\* retried and injects nothing; with a trace every proceed injects exactly
\* one trace event and returns true, so the events injected are as many as
\* the TrafficInjection events called, taken from the trace in its order.
C18_TrafficInjection ==
  /\ [][(ReplayStep /\ log[cursor].class = "TrafficInjection") =>
          IF sim.dataplane_trace = "None"
          THEN /\ lastRet' = "RuntimeError"
               /\ pc' = "raised"
               /\ cursor' = cursor
               /\ sim' = sim
          ELSE /\ lastRet' = "True"
               /\ cursor' = cursor + 1
               /\ sim'.injected = sim.injected + 1]_vars
  /\ [][(pc = "raised" /\ log[cursor].class = "TrafficInjection") => UNCHANGED vars]_vars
  /\ [](\A i \in 1..Len(log) : log[i].class = "TrafficInjection" => calls[i] <= 1)
  /\ [](sim.injected = Cardinality({i \in 1..Len(log) :
            /\ log[i].class = "TrafficInjection"
            /\ i < cursor}))

\* C18 witness: a log of two TrafficInjection events has been replayed with a
\* trace configured.
C18_Witness ==
  /\ Len(log) >= 2
  /\ \A i \in 1..Len(log) : log[i].class = "TrafficInjection"
  /\ pc = "done"
  /\ sim.dataplane_trace # "None"
  /\ sim.injected = Len(log)

(***************************************************************************)
(* The label registry: Event.__init__, statement by statement.  A thread   *)
(* constructing an event goes  draw -> test (-> draw ...) -> assign -> add *)
(* when no label is supplied and  assign -> add  when one is.  An event    *)
(* holds its label from "self.label = label" on: that is when it is        *)
(* appended to events.                                                     *)
(***************************************************************************)
Prefixes == {"e", "i"}
ExplicitLabels == {<<p, k>> : p \in Prefixes, k \in 1..MaxSuffix}
IdleThread == [pc |-> "idle", prefix |-> "e", label_id |-> 0, label |-> <<"e", 0>>, auto |-> FALSE]

\* events whose construction has begun
Started == Len(events) + Cardinality({t \in DOMAIN thr : thr[t].pc \in {"draw", "test", "assign"}})

\* Claimed with the membership test left out
Claimed_never(label_id, ids) == FALSE

\* line 42: label_id in Event._all_label_ids
Claimed(label_id, ids) == label_id \in ids

\* line 38, label is None: the caller supplies only the prefix
BeginAuto ==
  /\ \E t \in DOMAIN thr, p \in Prefixes :
       /\ thr[t].pc = "idle"
       /\ Started < MaxEvents
       /\ thr' = [thr EXCEPT ![t] = [pc |-> "draw", prefix |-> p, label_id |-> 0,
                                     label |-> <<p, 0>>, auto |-> TRUE]]
  /\ UNCHANGED <<label_gen, all_label_ids, events, replayVars, codecVars>>

\* line 38, label supplied (the reconstruction path)
BeginExplicit ==
  /\ \E t \in DOMAIN thr, l \in ExplicitLabels :
       /\ thr[t].pc = "idle"
       /\ Started < MaxEvents
       /\ thr' = [thr EXCEPT ![t] = [pc |-> "assign", prefix |-> l[1], label_id |-> l[2],
                                     label |-> l, auto |-> FALSE]]
  /\ UNCHANGED <<label_gen, all_label_ids, events, replayVars, codecVars>>

\* lines 40-41 and 43-44: label_id = Event._label_gen.next(); label = prefix + str(label_id)
DrawLabel ==
  /\ \E t \in DOMAIN thr :
       /\ thr[t].pc = "draw"
       /\ thr' = [thr EXCEPT ![t].pc = "test", ![t].label_id = label_gen,
                             ![t].label = <<thr[t].prefix, label_gen>>]
  /\ label_gen' = label_gen + 1
  /\ UNCHANGED <<all_label_ids, events, replayVars, codecVars>>

\* line 42: while label_id in Event._all_label_ids
TestClaimed ==
  /\ \E t \in DOMAIN thr :
       /\ thr[t].pc = "test"
       /\ thr' = [thr EXCEPT ![t].pc = IF Claimed(thr[t].label_id, all_label_ids)
                                       THEN "draw" ELSE "assign"]
  /\ UNCHANGED <<label_gen, all_label_ids, events, replayVars, codecVars>>

\* line 48: self.label = label
AssignLabel ==
  /\ \E t \in DOMAIN thr :
       /\ thr[t].pc = "assign"
       /\ events' = Append(events, [label |-> thr[t].label, auto |-> thr[t].auto])
       /\ thr' = [thr EXCEPT ![t].pc = "add"]
  /\ UNCHANGED <<label_gen, all_label_ids, replayVars, codecVars>>

\* line 49: Event._all_label_ids.add(int(label[1:]))
AddClaimed ==
  /\ \E t \in DOMAIN thr :
       /\ thr[t].pc = "add"
       /\ all_label_ids' = all_label_ids \cup {thr[t].label[2]}
       /\ thr' = [thr EXCEPT ![t] = IdleThread]
  /\ UNCHANGED <<label_gen, events, replayVars, codecVars>>

RegistryInit(n) ==
  /\ label_gen = 1
  /\ all_label_ids = {}
  /\ events = <<>>
  /\ thr = [t \in 1..n |-> IdleThread]
  /\ ReplayIdle
  /\ CodecIdle

RegistryNext ==
  \/ BeginAuto
  \/ BeginExplicit
  \/ DrawLabel
  \/ TestClaimed
  \/ AssignLabel
  \/ AddClaimed

\* one thread: constructions follow one another
RegistrySpec == RegistryInit(1) /\ [][RegistryNext]_vars

\* several threads: the statements of the constructions interleave
ConcSpec == RegistryInit(NumThreads) /\ [][RegistryNext]_vars

(***************************************************************************)
(* Claims about the label registry.                                        *)
(***************************************************************************)
\* C6: Label uniqueness.  The labels of the events constructed so far, auto
\* labelled or explicitly labelled in any order, are pairwise distinct.
C6_LabelUniqueness ==
  \A i, j \in 1..Len(events) : i # j => events[i].label # events[j].label

\* C7: Claimed-suffix skipping.  An auto-labelled event never receives the
\* numeric suffix of an explicitly labelled event constructed before it,
\* whatever the two prefixes are.
C7_ClaimedSuffixSkipped ==
  \A i, j \in 1..Len(events) :
    (i < j /\ ~events[i].auto /\ events[j].auto) => events[j].label[2] # events[i].label[2]

\* C7 witness: an auto-labelled event was constructed after an explicit label
\* whose suffix the counter had still to reach, and skipped it.
C7_Witness ==
  \E i, j \in 1..Len(events) :
    /\ i < j
    /\ ~events[i].auto
    /\ events[j].auto
    /\ events[j].label[2] > events[i].label[2]
    /\ \A k \in 1..Len(events) : events[k].auto => events[k].label[2] # events[i].label[2]
    /\ \A k \in 1..(i - 1) : events[k].label[2] < events[i].label[2]

\* C8: Concurrent label issuance.  With the statements of concurrent
\* constructions interleaved in any way, an auto-generated label is never
\* equal to a label another event already held when it was assigned.
C8_ConcurrentIssuance ==
  \A i, j \in 1..Len(events) :
    (i < j /\ events[j].auto) => events[j].label # events[i].label

(***************************************************************************)
(* The codec.  A record (one line of the log, json_hash once loaded) is a  *)
(* function from field names to JSON values.  json.dumps writes a tuple    *)
(* (SyncTime is a namedtuple) as a list; ints, strings and booleans are    *)
(* written as they are.                                                    *)
(***************************************************************************)
TupleFields == {"time", "controller_id", "fingerprint"}

json_dumps(name, value) ==
  IF name \in TupleFields /\ value.t \in {"tuple", "SyncTime"}
  THEN PyList(value.v)
  ELSE value

\* marshal.dumps(f.func_code).encode('base64') and back: the code object
\* keeps its name and its body
marshal_dumps(f) == [t |-> "marshal", name |-> f.name, code |-> f.code]
marshal_loads_function(m) == [t |-> "function", name |-> m.name, code |-> m.code]

\* Event.to_json, lines 62-69: every instance attribute plus 'class'; a
\* fingerprint attribute whose second item is a Fingerprint has it expanded
Event_to_json(self) ==
  [k \in DOMAIN self |->
     IF k = "fingerprint" /\ IsFingerprint(self[k].v[2])
     THEN json_dumps(k, PyTuple(<<self[k].v[1], to_dict(self[k].v[2])>>))
     ELSE json_dumps(k, self[k])]

\* CheckInvariants.to_json, lines 401-407
CheckInvariants_to_json(self) ==
  [k \in DOMAIN self \cup {"invariant_name"} |->
     IF k = "invariant_check" THEN marshal_dumps(self.invariant_check)
     ELSE IF k = "invariant_name" THEN self.invariant_check.name
     ELSE json_dumps(k, self[k])]

to_json(self) ==
  IF self.class = "CheckInvariants" THEN CheckInvariants_to_json(self)
  ELSE Event_to_json(self)

\* the result of decoding: the event, or the error raised
Parsed(e) == [ok |-> TRUE, event |-> e]
ParseError(kind, field) == [ok |-> FALSE, error |-> kind, field |-> field]

\* assert_fields_exist, lines 124-129: ValueError naming the first of the
\* fields that is not in json_hash
assert_fields_exist(json_hash, fields) ==
  LET missing == {i \in 1..Len(fields) : fields[i] \notin DOMAIN json_hash}
  IN  IF missing = {} THEN [ok |-> TRUE]
      ELSE ParseError("ValueError", fields[CHOOSE i \in missing : \A j \in missing : i <= j])

\* extract_label_time, lines 131-135
extract_label_time(json_hash) ==
  LET a == assert_fields_exist(json_hash, <<"label", "time">>)
  IN  IF ~a.ok THEN a
      ELSE [ok |-> TRUE, label |-> json_hash["label"],
            time |-> SyncTime(json_hash["time"].v[1], json_hash["time"].v[2])]

\* json_hash[field] of a field that may be absent
HasKey(json_hash, field) == field \in DOMAIN json_hash

SwitchFailure_from_json(json_hash) ==
  LET lt == extract_label_time(json_hash)
      a == assert_fields_exist(json_hash, <<"dpid">>)
  IN  IF ~lt.ok THEN lt ELSE IF ~a.ok THEN a
      ELSE Parsed(SwitchFailure(json_hash["dpid"], lt.label, lt.time))

SwitchRecovery_from_json(json_hash) ==
  LET lt == extract_label_time(json_hash)
      a == assert_fields_exist(json_hash, <<"dpid">>)
  IN  IF ~lt.ok THEN lt ELSE IF ~a.ok THEN a
      ELSE Parsed(SwitchRecovery(json_hash["dpid"], lt.label, lt.time))

LinkFields == <<"start_dpid", "start_port_no", "end_dpid", "end_port_no">>

LinkFailure_from_json(json_hash) ==
  LET lt == extract_label_time(json_hash)
      a == assert_fields_exist(json_hash, LinkFields)
  IN  IF ~lt.ok THEN lt ELSE IF ~a.ok THEN a
      ELSE Parsed(LinkFailure(json_hash["start_dpid"], json_hash["start_port_no"],
                              json_hash["end_dpid"], json_hash["end_port_no"],
                              lt.label, lt.time))

LinkRecovery_from_json(json_hash) ==
  LET lt == extract_label_time(json_hash)
      a == assert_fields_exist(json_hash, LinkFields)
  IN  IF ~lt.ok THEN lt ELSE IF ~a.ok THEN a
      ELSE Parsed(LinkRecovery(json_hash["start_dpid"], json_hash["start_port_no"],
                               json_hash["end_dpid"], json_hash["end_port_no"],
                               lt.label, lt.time))

\* lines 264-270: assert_fields_exist('controller_id') passes the field name
\* as json_hash and no field at all, so nothing is checked; the subscript on
\* the next line raises KeyError when the field is absent
ControllerFailure_from_json(json_hash) ==
  LET lt == extract_label_time(json_hash)
      a == assert_fields_exist([controller_id |-> 0], <<>>)
  IN  IF ~lt.ok THEN lt ELSE IF ~a.ok THEN a
      ELSE IF ~HasKey(json_hash, "controller_id") THEN ParseError("KeyError", "controller_id")
      ELSE LET controller_id == json_hash["controller_id"]
           IN  Parsed(ControllerFailure(PyTuple(<<controller_id.v[1], controller_id.v[2]>>),
                                        lt.label, lt.time))

\* lines 286-292: the same body, ControllerFailure(...) on the last line included
ControllerRecovery_from_json(json_hash) ==
  LET lt == extract_label_time(json_hash)
      a == assert_fields_exist([controller_id |-> 0], <<>>)
  IN  IF ~lt.ok THEN lt ELSE IF ~a.ok THEN a
      ELSE IF ~HasKey(json_hash, "controller_id") THEN ParseError("KeyError", "controller_id")
      ELSE LET controller_id == json_hash["controller_id"]
           IN  Parsed(ControllerFailure(PyTuple(<<controller_id.v[1], controller_id.v[2]>>),
                                        lt.label, lt.time))

MigrationFields == <<"old_ingress_dpid", "old_ingress_port_no", "new_ingress_dpid", "new_ingress_port_no">>

HostMigration_from_json(json_hash) ==
  LET lt == extract_label_time(json_hash)
      a == assert_fields_exist(json_hash, MigrationFields)
  IN  IF ~lt.ok THEN lt ELSE IF ~a.ok THEN a
      ELSE Parsed(HostMigration(json_hash["old_ingress_dpid"], json_hash["old_ingress_port_no"],
                                json_hash["new_ingress_dpid"], json_hash["new_ingress_port_no"],
                                lt.label, lt.time))

PolicyChange_from_json(json_hash) ==
  LET lt == extract_label_time(json_hash)
      a == assert_fields_exist(json_hash, <<"request_type">>)
  IN  IF ~lt.ok THEN lt ELSE IF ~a.ok THEN a
      ELSE Parsed(PolicyChange(json_hash["request_type"], lt.label, lt.time))

TrafficInjection_from_json(json_hash) ==
  LET lt == extract_label_time(json_hash)
  IN  IF ~lt.ok THEN lt ELSE Parsed(TrafficInjection(lt.label, lt.time))

WaitTime_from_json(json_hash) ==
  LET lt == extract_label_time(json_hash)
      a == assert_fields_exist(json_hash, <<"wait_time">>)
  IN  IF ~lt.ok THEN lt ELSE IF ~a.ok THEN a
      ELSE Parsed(WaitTime(json_hash["wait_time"], lt.label, lt.time))

\* the predicates of InvariantChecker a record may name, and the lookup of one
\* by its name
check_loops == [t |-> "function", name |-> "check_loops", code |-> 2]
InvariantPredicates == {check_correspondence, check_loops}
predicate_by_name(name) == CHOOSE f \in InvariantPredicates : f.name = name

\* CheckInvariants.from_json reading invariant_name instead of the marshalled code
CheckInvariants_from_json_by_name(json_hash) ==
  LET lt == extract_label_time(json_hash)
      fail_on_error == IF HasKey(json_hash, "fail_on_error")
                       THEN json_hash["fail_on_error"] ELSE FALSE
      invariant_check == IF HasKey(json_hash, "invariant_name")
                         THEN predicate_by_name(json_hash["invariant_name"])
                         ELSE check_correspondence
  IN  IF ~lt.ok THEN lt
      ELSE Parsed(CheckInvariants(fail_on_error, lt.label, lt.time, invariant_check))

\* lines 409-422: both fields are optional; the predicate is rebuilt from the
\* marshalled code, invariant_name is not read
CheckInvariants_from_json(json_hash) ==
  LET lt == extract_label_time(json_hash)
      fail_on_error == IF HasKey(json_hash, "fail_on_error")
                       THEN json_hash["fail_on_error"] ELSE FALSE
      invariant_check == IF HasKey(json_hash, "invariant_check")
                         THEN marshal_loads_function(json_hash["invariant_check"])
                         ELSE check_correspondence
  IN  IF ~lt.ok THEN lt
      ELSE Parsed(CheckInvariants(fail_on_error, lt.label, lt.time, invariant_check))

ControlChannelBlock_from_json(json_hash) ==
  LET lt == extract_label_time(json_hash)
      a == assert_fields_exist(json_hash, <<"dpid", "controller_id">>)
  IN  IF ~lt.ok THEN lt ELSE IF ~a.ok THEN a
      ELSE Parsed(ControlChannelBlock(json_hash["dpid"], PyTuple(json_hash["controller_id"].v),
                                      lt.label, lt.time))

ControlChannelUnblock_from_json(json_hash) ==
  LET lt == extract_label_time(json_hash)
      a == assert_fields_exist(json_hash, <<"dpid", "controller_id">>)
  IN  IF ~lt.ok THEN lt ELSE IF ~a.ok THEN a
      ELSE Parsed(ControlChannelUnblock(json_hash["dpid"], PyTuple(json_hash["controller_id"].v),
                                        lt.label, lt.time))

DataplaneDrop_from_json(json_hash) ==
  LET lt == extract_label_time(json_hash)
      a == assert_fields_exist(json_hash, <<"fingerprint">>)
  IN  IF ~lt.ok THEN lt ELSE IF ~a.ok THEN a
      ELSE Parsed(DataplaneDrop(json_hash["fingerprint"], lt.label, lt.time))

DataplanePermit_from_json(json_hash) ==
  LET lt == extract_label_time(json_hash)
      a == assert_fields_exist(json_hash, <<"fingerprint">>)
  IN  IF ~lt.ok THEN lt ELSE IF ~a.ok THEN a
      ELSE Parsed(DataplanePermit(json_hash["fingerprint"], lt.label, lt.time))

ControlMessageReceive_from_json(json_hash) ==
  LET lt == extract_label_time(json_hash)
      a == assert_fields_exist(json_hash, <<"dpid", "controller_id", "fingerprint">>)
  IN  IF ~lt.ok THEN lt ELSE IF ~a.ok THEN a
      ELSE Parsed(ControlMessageReceive(json_hash["dpid"], PyTuple(json_hash["controller_id"].v),
                                        json_hash["fingerprint"], lt.label, lt.time))

ControllerStateChange_from_json(json_hash) ==
  LET lt == extract_label_time(json_hash)
      a == assert_fields_exist(json_hash, <<"controller_id", "fingerprint", "name", "value">>)
  IN  IF ~lt.ok THEN lt ELSE IF ~a.ok THEN a
      ELSE Parsed(ControllerStateChange(PyTuple(json_hash["controller_id"].v),
                                        json_hash["fingerprint"], json_hash["name"],
                                        json_hash["value"], lt.label, lt.time))

\* the classes of all_input_events and all_internal_events that define from_json
DecodableClasses ==
  {"SwitchFailure", "SwitchRecovery", "LinkFailure", "LinkRecovery",
   "ControllerFailure", "ControllerRecovery", "HostMigration", "PolicyChange",
   "TrafficInjection", "WaitTime", "CheckInvariants", "ControlChannelBlock",
   "ControlChannelUnblock", "DataplaneDrop", "DataplanePermit",
   "ControlMessageReceive", "ControllerStateChange"}

\* decode-time dispatch: the record's class tag names the class whose
\* from_json decodes it
from_json(json_hash) ==
  LET c == json_hash["class"]
  IN  CASE c = "SwitchFailure" -> SwitchFailure_from_json(json_hash)
        [] c = "SwitchRecovery" -> SwitchRecovery_from_json(json_hash)
        [] c = "LinkFailure" -> LinkFailure_from_json(json_hash)
        [] c = "LinkRecovery" -> LinkRecovery_from_json(json_hash)
        [] c = "ControllerFailure" -> ControllerFailure_from_json(json_hash)
        [] c = "ControllerRecovery" -> ControllerRecovery_from_json(json_hash)
        [] c = "HostMigration" -> HostMigration_from_json(json_hash)
        [] c = "PolicyChange" -> PolicyChange_from_json(json_hash)
        [] c = "TrafficInjection" -> TrafficInjection_from_json(json_hash)
        [] c = "WaitTime" -> WaitTime_from_json(json_hash)
        [] c = "CheckInvariants" -> CheckInvariants_from_json(json_hash)
        [] c = "ControlChannelBlock" -> ControlChannelBlock_from_json(json_hash)
        [] c = "ControlChannelUnblock" -> ControlChannelUnblock_from_json(json_hash)
        [] c = "DataplaneDrop" -> DataplaneDrop_from_json(json_hash)
        [] c = "DataplanePermit" -> DataplanePermit_from_json(json_hash)
        [] c = "ControlMessageReceive" -> ControlMessageReceive_from_json(json_hash)
        [] c = "ControllerStateChange" -> ControllerStateChange_from_json(json_hash)
        [] OTHER -> ParseError("AttributeError", "from_json")

\* the fingerprint property of the classes that define one, the fingerprint
\* attribute of the classes that store one, None for the rest
fingerprint(self) ==
  CASE self.class \in {"SwitchFailure", "SwitchRecovery"} ->
         PyTuple(<<self.class, self.dpid>>)
    [] self.class \in {"LinkFailure", "LinkRecovery"} ->
         PyTuple(<<self.class, self.start_dpid, self.start_port_no,
                   self.end_dpid, self.end_port_no>>)
    [] self.class \in {"ControllerFailure", "ControllerRecovery"} ->
         PyTuple(<<self.class, self.controller_id>>)
    [] self.class = "HostMigration" ->
         PyTuple(<<self.class, self.old_ingress_dpid, self.old_ingress_port_no,
                   self.new_ingress_dpid, self.new_ingress_port_no>>)
    [] self.class \in {"ControlChannelBlock", "ControlChannelUnblock"} ->
         PyTuple(<<self.class, self.dpid, self.controller_id>>)
    [] self.class \in {"DataplaneDrop", "DataplanePermit", "ControlMessageReceive",
                       "ControllerStateChange"} -> self.fingerprint
    [] OTHER -> PyNone

\* Event.__eq__, lines 75-79.  No instance has type Event itself: Event is
\* abstract and every event is an instance of a subclass.
Event_eq(self, other) ==
  IF other.class # "Event" THEN FALSE
  ELSE self.label = other.label

\* the live instances the codec is exercised on: one per template and label
CodecEvents == {Template(k, n, SyncTime(n, 0)) : k \in TemplateIds, n \in 1..MaxSuffix}

CodecInit ==
  /\ ev_a \in CodecEvents
  /\ ev_b \in CodecEvents
  /\ record = <<>>
  /\ decoded = <<>>
  /\ eq_result = <<>>
  /\ ReplayIdle
  /\ RegistryIdle

\* ev_a is written to the log
Serialize ==
  /\ record = <<>>
  /\ record' = <<to_json(ev_a)>>
  /\ UNCHANGED <<ev_a, ev_b, decoded, eq_result, replayVars, registryVars>>

\* the line is read back
Deserialize ==
  /\ record # <<>>
  /\ decoded = <<>>
  /\ decoded' = <<from_json(record[1])>>
  /\ UNCHANGED <<ev_a, ev_b, record, eq_result, replayVars, registryVars>>

\* ev_a == ev_b
Compare ==
  /\ eq_result = <<>>
  /\ eq_result' = <<Event_eq(ev_a, ev_b)>>
  /\ UNCHANGED <<ev_a, ev_b, record, decoded, replayVars, registryVars>>

CodecNext ==
  \/ Serialize
  \/ Deserialize
  \/ Compare

CodecSpec == CodecInit /\ [][CodecNext]_vars

(***************************************************************************)
(* Claims about equality and the codec.                                    *)
(***************************************************************************)
\* C9: Event equality.  a == b holds if and only if a.label = b.label, for
\* any two instances of any concrete classes.
C9_EventEquality ==
  eq_result # <<>> => (eq_result[1] <=> (ev_a.label = ev_b.label))

KeyFields(e) == DOMAIN e \ {"class", "label", "time", "dependent_labels"}

\* C10: Round-trip.  Decoding the record to_json wrote for an instance of a
\* class that defines from_json yields an event of the same class with the
\* same label, the same key field values and the same fingerprint.
C10_RoundTrip ==
  (decoded # <<>> /\ ev_a.class \in DecodableClasses) =>
    /\ decoded[1].ok
    /\ decoded[1].event.class = ev_a.class
    /\ decoded[1].event.label = ev_a.label
    /\ KeyFields(decoded[1].event) = KeyFields(ev_a)
    /\ \A k \in KeyFields(ev_a) : decoded[1].event[k] = ev_a[k]
    /\ fingerprint(decoded[1].event) = fingerprint(ev_a)

(***************************************************************************)
(* Decoding the records of a log file as found: records to_json wrote,     *)
(* records naming dependent labels or another predicate, and records with  *)
(* one field missing.                                                      *)
(***************************************************************************)
WithoutField(json_hash, field) == [k \in DOMAIN json_hash \ {field} |-> json_hash[k]]

WrittenRecords == {to_json(e) : e \in CodecEvents}

\* "dependent_labels": [] or ["e2"]
DependentLabels == {PyList(<<>>), PyList(<< <<"e", 2>> >>)}

LabelledRecords ==
  {[r EXCEPT !["dependent_labels"] = d] : r \in WrittenRecords, d \in DependentLabels}

\* a CheckInvariants record names any predicate and carries the code of any
NamedRecords ==
  {IF r["class"] = "CheckInvariants"
   THEN [r EXCEPT !["invariant_name"] = f.name, !["invariant_check"] = marshal_dumps(g)]
   ELSE r : r \in LabelledRecords, f \in InvariantPredicates, g \in InvariantPredicates}

\* the record complete, or with any one field but the class tag missing
RawRecords ==
  NamedRecords \cup
    UNION {{WithoutField(r, k) : k \in DOMAIN r \ {"class"}} : r \in NamedRecords}

DecodeInit ==
  /\ record \in {<<r>> : r \in RawRecords}
  /\ decoded = <<>>
  /\ ev_a = "none"
  /\ ev_b = "none"
  /\ eq_result = <<>>
  /\ ReplayIdle
  /\ RegistryIdle

DecodeSpec == DecodeInit /\ [][Deserialize]_vars

(***************************************************************************)
(* Claims about decoding.                                                  *)
(***************************************************************************)
\* C11: Identity preservation on decode.  An event from_json reconstructs
\* from a record carries exactly the record's label, time and
\* dependent_labels.
C11_IdentityPreserved ==
  (decoded # <<>> /\ decoded[1].ok /\ HasKey(record[1], "dependent_labels")) =>
    /\ decoded[1].event.label = record[1]["label"]
    /\ decoded[1].event.time = SyncTime(record[1]["time"].v[1], record[1]["time"].v[2])
    /\ decoded[1].event.dependent_labels = record[1]["dependent_labels"]

\* the fields a class's from_json cannot do without: the constructor's
\* arguments that have no default
RequiredFields(class) ==
  CASE class \in {"SwitchFailure", "SwitchRecovery"} -> {"dpid"}
    [] class \in {"LinkFailure", "LinkRecovery"} ->
         {"start_dpid", "start_port_no", "end_dpid", "end_port_no"}
    [] class \in {"ControllerFailure", "ControllerRecovery"} -> {"controller_id"}
    [] class = "HostMigration" ->
         {"old_ingress_dpid", "old_ingress_port_no", "new_ingress_dpid", "new_ingress_port_no"}
    [] class = "PolicyChange" -> {"request_type"}
    [] class = "WaitTime" -> {"wait_time"}
    [] class \in {"ControlChannelBlock", "ControlChannelUnblock"} -> {"dpid", "controller_id"}
    [] class \in {"DataplaneDrop", "DataplanePermit"} -> {"fingerprint"}
    [] class = "ControlMessageReceive" -> {"dpid", "controller_id", "fingerprint"}
    [] class = "ControllerStateChange" -> {"controller_id", "fingerprint", "name", "value"}
    [] OTHER -> {}

\* C12: Required-field validation.  Decoding a record of any class from which
\* one of the class's required fields is absent fails with ValueError naming
\* the missing field, and produces no event.
C12_RequiredFieldValidation ==
  (/\ decoded # <<>>
   /\ record[1]["class"] \in DecodableClasses
   /\ {"label", "time"} \subseteq DOMAIN record[1]
   /\ RequiredFields(record[1]["class"]) \ DOMAIN record[1] # {}) =>
    /\ ~decoded[1].ok
    /\ decoded[1].error = "ValueError"
    /\ decoded[1].field \in RequiredFields(record[1]["class"]) \ DOMAIN record[1]

\* C13: Records without a time field are accepted.  A record carrying class,
\* label, dependent_labels and the class's key fields but no time decodes
\* into an event of the tagged class.
C13_TimeOptional ==
  (/\ decoded # <<>>
   /\ record[1]["class"] \in DecodableClasses
   /\ "time" \notin DOMAIN record[1]) =>
    /\ decoded[1].ok
    /\ decoded[1].event.class = record[1]["class"]

\* what to_json writes for every CheckInvariants event names its predicate
RecordNamesPredicate ==
  \A e \in CodecEvents :
    e.class = "CheckInvariants" => to_json(e)["invariant_name"] = e.invariant_check.name

\* C19: Predicate resolution by name.  The record written for a
\* CheckInvariants event carries the predicate's name, and decoding a
\* CheckInvariants record yields the canonical predicate of the name the
\* record carries, whatever the serialized code is.
C19_PredicateResolvedByName ==
  /\ RecordNamesPredicate
  /\ (/\ decoded # <<>>
      /\ decoded[1].ok
      /\ record[1]["class"] = "CheckInvariants"
      /\ HasKey(record[1], "invariant_name")) =>
       decoded[1].event.invariant_check = predicate_by_name(record[1]["invariant_name"])

\* C19 as amended: the record carries the predicate's name and its marshalled
\* code; decoding rebuilds the predicate from the code when the record
\* carries it and takes check_correspondence when it does not; the name in
\* the record has no part in it.
C19_PredicateFromCode ==
  /\ RecordNamesPredicate
  /\ (/\ decoded # <<>>
      /\ decoded[1].ok
      /\ record[1]["class"] = "CheckInvariants") =>
       /\ HasKey(record[1], "invariant_check") =>
            /\ decoded[1].event.invariant_check.code = record[1]["invariant_check"].code
            /\ decoded[1].event.invariant_check.name = record[1]["invariant_check"].name
       /\ ~HasKey(record[1], "invariant_check") =>
            decoded[1].event.invariant_check = check_correspondence

\* C19 witness: a record naming check_loops and carrying the code of
\* check_correspondence has been decoded into check_correspondence.
C19_Witness ==
  /\ decoded # <<>>
  /\ decoded[1].ok
  /\ record[1]["class"] = "CheckInvariants"
  /\ HasKey(record[1], "invariant_name")
  /\ HasKey(record[1], "invariant_check")
  /\ record[1]["invariant_name"] = "check_loops"
  /\ record[1]["invariant_check"].code = check_correspondence.code
  /\ decoded[1].event.invariant_check = check_correspondence

(***************************************************************************)
(* A whole run (section 4.4, steps 1 to 3): the driver reads the log file, *)
(* decodes every record in file order, and only then replays the events.   *)
(* The files are 1..MaxLogLen lines long; a line is the record of a link,  *)
(* controller, traffic or dataplane event, complete or with one field      *)
(* missing.                                                                *)
(***************************************************************************)
RunTemplateIds == {3, 4, 5, 6, 10, 16}

FileRecords(n) ==
  LET written == {to_json(Template(k, n, SyncTime(n, 0))) : k \in RunTemplateIds}
  IN  written \cup
        UNION {{WithoutField(r, k) : k \in DOMAIN r \ {"class", "dependent_labels"}} :
                 r \in written}

RECURSIVE FilesOfLength(_)
FilesOfLength(n) ==
  IF n = 0 THEN {<<>>}
  ELSE {Append(f, r) : f \in FilesOfLength(n - 1), r \in FileRecords(n)}

\* the log files of at most longest lines
SuperLogs(longest) == UNION {FilesOfLength(n) : n \in 1..longest}

RunInit ==
  /\ superlog \in SuperLogs(MaxLogLen)
  /\ log = <<>>
  /\ cursor = 1
  /\ pc = "decoding"
  /\ \E trace \in {"None", "trace"} :
       /\ (trace = "None") =>
            (\E i \in 1..Len(superlog) : superlog[i]["class"] = "TrafficInjection")
       /\ sim = InitSim(trace)
  /\ calls = <<>>
  /\ lastIdx = 0
  /\ lastRet = "none"
  /\ deferred = FALSE
  /\ exit_status = 0
  /\ reported = "none"
  /\ RegistryIdle
  /\ CodecIdle

\* AllDecoded of a driver that starts replaying as soon as it holds an event
AllDecoded_some(decoded_events, lines) == Len(decoded_events) >= 1

\* step 1 is over: every line of the file has been decoded
AllDecoded(decoded_events, lines) == Len(decoded_events) = Len(lines)

\* step 1: the next line is decoded; a line that does not decode ends the run
DecodeRecord ==
  /\ pc = "decoding"
  /\ Len(log) < Len(superlog)
  /\ LET d == from_json(superlog[Len(log) + 1])
     IN  IF d.ok
         THEN log' = Append(log, d.event) /\ pc' = pc
         ELSE log' = log /\ pc' = "parse_error"
  /\ UNCHANGED <<superlog, cursor, sim, calls, lastIdx, lastRet, deferred, exit_status,
                 reported, registryVars, codecVars>>

\* step 2 begins, with the cursor on the first event
StartReplay ==
  /\ pc = "decoding"
  /\ AllDecoded(log, superlog)
  /\ pc' = "running"
  /\ calls' = [i \in 1..Len(log) |-> 0]
  /\ UNCHANGED <<superlog, log, cursor, sim, lastIdx, lastRet, deferred, exit_status,
                 reported, registryVars, codecVars>>

RunNext ==
  \/ DecodeRecord
  \/ StartReplay
  \/ ReplayStep
  \/ Resume
  \/ DpEventBuffered

RunSpec == RunInit /\ [][RunNext]_vars

(***************************************************************************)
(* Claims about whole runs.                                                *)
(***************************************************************************)
\* the file of scenario B: the records of a ControllerFailure and of a
\* ControllerRecovery of the same controller, complete
ScenarioB ==
  /\ Len(superlog) = 2
  /\ superlog[1]["class"] = "ControllerFailure"
  /\ superlog[2]["class"] = "ControllerRecovery"
  /\ \A i \in 1..2 : {"label", "time", "controller_id"} \subseteq DOMAIN superlog[i]
  /\ superlog[1]["controller_id"] = superlog[2]["controller_id"]

\* C14: End-to-end scenario B.  Replaying the decoded log
\* [ControllerFailure(c), ControllerRecovery(c)] kills controller c, then
\* reboots it, so that c is down after the first event and alive at the end
\* of the run, without error, and no other controller is touched.
C14_ScenarioB ==
  ScenarioB =>
    LET c == PyTuple(superlog[1]["controller_id"].v)
    IN  /\ pc \notin {"parse_error", "raised", "exited", "yield"}
        /\ (pc = "running" /\ cursor = 2) => c \in sim.dead
        /\ pc = "done" => c \notin sim.dead
        /\ sim.dead \subseteq {c}

Malformed(json_hash) == ~from_json(json_hash).ok

\* C20: Decode precedes execution.  No proceed call is made before every
\* record of the file is decoded; a file with a malformed record at any
\* position, the last included, ends the run at decode time, for good, with
\* no proceed call made and the simulation untouched.
C20_DecodePrecedesExecution ==
  /\ [](lastIdx > 0 => Len(log) = Len(superlog))
  /\ []((\E i \in 1..Len(superlog) : Malformed(superlog[i])) =>
          /\ pc \in {"decoding", "parse_error"}
          /\ lastIdx = 0
          /\ calls = <<>>
          /\ sim = InitSim(sim.dataplane_trace))
  /\ [][pc = "parse_error" => UNCHANGED vars]_vars

\* C20 witness: the run ended on a malformed last line, the lines before it
\* decoded.
C20_Witness ==
  /\ pc = "parse_error"
  /\ Len(superlog) >= 2
  /\ Len(log) = Len(superlog) - 1
  /\ Malformed(superlog[Len(superlog)])
  /\ lastIdx = 0

(***************************************************************************)
(* Replays of the events that wait for a live occurrence: DataplaneDrop,   *)
(* DataplanePermit, ControlMessageReceive and ControllerStateChange.  The  *)
(* events of a log wait on the same collaborator (the general logs mix     *)
(* them); its ControllerStateChange events carry the same time, so that    *)
(* they have the same key.  The run may be aborted from outside between    *)
(* two retries (section 5, cancellation).                                  *)
(***************************************************************************)
WaitTemplateIds == {{16, 17}, {18}, {19}}

WaitLogsOver(ids) ==
  UNION {{[i \in 1..n |-> Template(f[i], i, SyncTime(IF f[i] = 19 THEN 1 ELSE i, 0))] :
            f \in [1..n -> ids]} :
         n \in 1..MaxLogLen}

WaitLogs == UNION {WaitLogsOver(ids) : ids \in WaitTemplateIds}

WaitInit ==
  /\ superlog = <<>>
  /\ log \in WaitLogs
  /\ cursor = 1
  /\ pc = "running"
  /\ sim = InitSim("trace")
  /\ calls = [i \in 1..Len(log) |-> 0]
  /\ lastIdx = 0
  /\ lastRet = "none"
  /\ deferred = FALSE
  /\ exit_status = 0
  /\ reported = "none"
  /\ RegistryIdle
  /\ CodecIdle

\* CursorAfterAbort of a driver that gives the event up
CursorAfterAbort_skip(at) == at + 1

\* on abort the current event remains un-advanced
CursorAfterAbort(at) == at

\* external abort between two retries: the run ends and the label of the
\* current event is reported
Abort ==
  /\ pc = "yield"
  /\ pc' = "aborted"
  /\ cursor' = CursorAfterAbort(cursor)
  /\ reported' = log[cursor].label
  /\ UNCHANGED <<superlog, log, sim, calls, lastIdx, lastRet, deferred, exit_status,
                 registryVars, codecVars>>

WaitNext ==
  \/ ReplayStep
  \/ Resume
  \/ DpEventBuffered
  \/ MessageArrives
  \/ StateChangeObserved
  \/ Abort

WaitSpec == WaitInit /\ [][WaitNext]_vars

(***************************************************************************)
(* Claims about aborts and about the events that wait.                     *)
(***************************************************************************)
\* C21: Abort keeps the cursor.  When the run is aborted between two retries
\* the cursor is neither advanced nor moved back: it designates the event
\* last called, whose label is the label reported, and nothing moves after.
C21_AbortKeepsCursor ==
  /\ [][(pc # "aborted" /\ pc' = "aborted") =>
          /\ pc = "yield"
          /\ cursor' = cursor
          /\ reported' = log[cursor].label]_vars
  /\ [](pc = "aborted" =>
          /\ cursor = lastIdx
          /\ reported = log[lastIdx].label
          /\ lastRet # "True"
          /\ \A j \in 1..Len(log) : j > cursor => calls[j] = 0)
  /\ [][pc = "aborted" => UNCHANGED vars]_vars

\* C21 witness: the run was aborted between retries of its second event.
C21_Witness ==
  /\ pc = "aborted"
  /\ cursor = 2
  /\ calls[2] >= 2
  /\ reported = log[2].label

DataplaneClasses == {"DataplaneDrop", "DataplanePermit"}

\* C22: DataplaneDrop / DataplanePermit.  proceed returns true exactly when
\* the patch panel buffers the event of the fingerprint; then that event and
\* no other leaves the buffer, dropped (resp. permitted), and nothing else
\* changes; otherwise proceed returns false, raises nothing and changes
\* nothing, on every call.
C22_DataplaneDropPermit ==
  [][(ReplayStep /\ log[cursor].class \in DataplaneClasses) =>
       LET fp == log[cursor].fingerprint.v[2]
           drop == log[cursor].class = "DataplaneDrop"
       IN  IF fp \in sim.buffered
           THEN /\ lastRet' = "True"
                /\ cursor' = cursor + 1
                /\ sim' = [sim EXCEPT !.buffered = @ \ {fp},
                                      !.dropped = IF drop THEN @ \cup {fp} ELSE @,
                                      !.permitted = IF drop THEN @ ELSE @ \cup {fp}]
           ELSE /\ lastRet' = "False"
                /\ pc' = "yield"
                /\ cursor' = cursor
                /\ sim' = sim]_vars

\* C22 witness: a DataplanePermit was retried, then found its event buffered
\* next to another one and permitted it alone.
C22_Witness ==
  /\ lastIdx > 0
  /\ log[lastIdx].class = "DataplanePermit"
  /\ lastRet = "True"
  /\ calls[lastIdx] >= 2
  /\ sim.permitted = {log[lastIdx].fingerprint.v[2]}
  /\ sim.buffered # {}
  /\ sim.dropped = {}

PendingReceiveOf(e) == PendingReceive(e.dpid, e.controller_id, e.fingerprint.v[2])

\* C23: ControlMessageReceive.  proceed calls schedule for the pending
\* receive exactly when message_waiting reports it waiting, and returns true
\* exactly then; a pending receive is never scheduled more times than it was
\* waiting.
C23_ControlMessageReceive ==
  /\ [][(ReplayStep /\ log[cursor].class = "ControlMessageReceive") =>
          LET pr == PendingReceiveOf(log[cursor])
          IN  IF pr \in sim.waiting
              THEN /\ lastRet' = "True"
                   /\ sim'.schedule_calls = Incr(sim.schedule_calls, pr)
                   /\ pr \in sim'.scheduled
              ELSE /\ lastRet' = "False"
                   /\ sim'.schedule_calls = sim.schedule_calls
                   /\ sim'.scheduled = sim.scheduled]_vars
  /\ [](\A m \in DOMAIN sim.schedule_calls :
          sim.schedule_calls[m] <= Count(sim.arrivals, m))

\* C23 witness: the same pending receive was scheduled twice, having waited
\* twice.
C23_Witness ==
  \E m \in DOMAIN sim.schedule_calls :
    /\ sim.schedule_calls[m] = 2
    /\ Count(sim.arrivals, m) = 2

PendingStateChangeOf(e) ==
  PendingStateChange(e.controller_id, e.time, e.fingerprint, e.name, e.value)

\* the ControllerStateChange events of key c the driver has passed
Passed(c) ==
  {i \in 1..Len(log) : /\ i < cursor
                       /\ log[i].class = "ControllerStateChange"
                       /\ PendingStateChangeOf(log[i]) = c}

\* C24: ControllerStateChange.  proceed returns true exactly when the
\* matching PendingStateChange is pending, and then garbage-collects it;
\* otherwise it returns false.  So the events of one key that the driver has
\* passed are never more than the live occurrences of that key.
C24_ControllerStateChange ==
  /\ [][(ReplayStep /\ log[cursor].class = "ControllerStateChange") =>
          LET c == PendingStateChangeOf(log[cursor])
          IN  IF c \in sim.pending
              THEN /\ lastRet' = "True"
                   /\ sim'.pending = sim.pending \ {c}
                   /\ sim'.gc_calls = Incr(sim.gc_calls, c)
              ELSE /\ lastRet' = "False"
                   /\ sim' = sim]_vars
  /\ [](\A i \in 1..Len(log) :
          log[i].class = "ControllerStateChange" =>
            Cardinality(Passed(PendingStateChangeOf(log[i])))
              <= Count(sim.observations, PendingStateChangeOf(log[i])))

\* C24 witness: two events of the same key have been passed, after two
\* occurrences.
C24_Witness ==
  /\ Len(log) >= 2
  /\ log[1].class = "ControllerStateChange"
  /\ log[2].class = "ControllerStateChange"
  /\ PendingStateChangeOf(log[1]) = PendingStateChangeOf(log[2])
  /\ cursor > 2
  /\ Count(sim.observations, PendingStateChangeOf(log[1])) = 2

WaitingClasses ==
  {"DataplaneDrop", "DataplanePermit", "ControlMessageReceive", "ControllerStateChange"}

\* C25: A not-ready attempt has no effect.  Whenever proceed of one of the
\* four waiting classes returns false the simulation is exactly what it was
\* before the call; and these proceeds never raise.
C25_NotReadyNoEffect ==
  /\ [][(ReplayStep /\ log[cursor].class \in WaitingClasses /\ lastRet' # "True") =>
          /\ lastRet' = "False"
          /\ sim' = sim
          /\ cursor' = cursor
          /\ pc' = "yield"]_vars
  /\ []((lastIdx > 0 /\ log[lastIdx].class \in WaitingClasses) =>
          lastRet \in {"True", "False"})

\* C25 witness: a ControlMessageReceive was not ready a second time while
\* the collaborators held other occurrences.
C25_Witness ==
  /\ pc = "yield"
  /\ lastRet = "False"
  /\ log[cursor].class = "ControlMessageReceive"
  /\ calls[cursor] >= 2
  /\ sim.waiting # {}
  /\ sim.scheduled # {}

(***************************************************************************)
(* Replays of faults: logs of ControlChannelBlock and ControlChannelUnblock *)
(* on two channels, logs of LinkFailure and LinkRecovery, and logs of      *)
(* SwitchFailure and SwitchRecovery, some of them naming a switch the      *)
(* topology does not hold.  None of these events waits, so the driver only *)
(* steps.                                                                  *)
(***************************************************************************)
MaxFaultLogLen == 4   \* longest log of faults replayed

FaultTemplateIds == {{14, 15, 21, 22}, {3, 4, 23, 24}, {1, 2, 25}}

FaultLogsOver(ids) ==
  UNION {{[i \in 1..n |-> Template(f[i], i, SyncTime(i, 0))] : f \in [1..n -> ids]} :
         n \in 1..MaxFaultLogLen}

FaultLogs == UNION {FaultLogsOver(ids) : ids \in FaultTemplateIds}

FaultInit ==
  /\ superlog = <<>>
  /\ log \in FaultLogs
  /\ cursor = 1
  /\ pc = "running"
  /\ sim = InitSim("trace")
  /\ calls = [i \in 1..Len(log) |-> 0]
  /\ lastIdx = 0
  /\ lastRet = "none"
  /\ deferred = FALSE
  /\ exit_status = 0
  /\ reported = "none"
  /\ RegistryIdle
  /\ CodecIdle

FaultSpec == FaultInit /\ [][ReplayStep]_vars

(***************************************************************************)
(* Claims about channels, links and switch recovery.                       *)
(***************************************************************************)
ChannelClasses == {"ControlChannelBlock", "ControlChannelUnblock"}
\* the positions of the log's events on the channel, among the first upto
ChannelEvents(channel, upto) ==
  {i \in 1..upto : log[i].class \in ChannelClasses /\ ChannelOf(log[i]) = channel}
Channels == {ChannelOf(log[i]) : i \in {j \in 1..Len(log) : log[j].class \in ChannelClasses}}
Last(positions) == CHOOSE i \in positions : \A j \in positions : j <= i

\* C26: Channel alternation.  Every channel starts unblocked.  In a run that
\* completed without a raised error, the ControlChannelBlock and
\* ControlChannelUnblock events of each channel alternate in the log, the
\* first of them being a ControlChannelBlock; and at any moment of any run a
\* channel is blocked exactly when the last event executed on it is a
\* ControlChannelBlock.
C26_ChannelAlternation ==
  /\ pc = "done" =>
       \A channel \in Channels :
         LET on == ChannelEvents(channel, Len(log))
         IN  \A i \in on :
               LET before == {j \in on : j < i}
               IN  IF before = {} THEN log[i].class = "ControlChannelBlock"
                   ELSE log[i].class # log[Last(before)].class
  /\ pc \in {"running", "done", "raised"} =>
       \A channel \in Channels :
         LET executed == ChannelEvents(channel, cursor - 1)
         IN  channel \in sim.blocked <=>
               /\ executed # {}
               /\ log[Last(executed)].class = "ControlChannelBlock"

\* C26 witness: a completed run of four events on two channels, each blocked
\* and unblocked again, the events of the two channels interleaved.
C26_Witness ==
  /\ pc = "done"
  /\ Len(log) = 4
  /\ Cardinality(Channels) = 2
  /\ ChannelOf(log[1]) # ChannelOf(log[2])
  /\ \A channel \in Channels : Cardinality(ChannelEvents(channel, 4)) = 2
  /\ sim.blocked = {}

LinkClasses == {"LinkFailure", "LinkRecovery"}
LinkCall(e) ==
  <<IF e.class = "LinkFailure" THEN "sever_link" ELSE "repair_link", get_link(e, sim), "None">>

\* C27: Link resolution failure.  When proceed of a LinkFailure or of a
\* LinkRecovery names a switch the topology cannot resolve, the topology's
\* error leaves proceed (proceed does not return false), the run stops on the
\* event, neither sever_link nor repair_link is called and the simulation is
\* as it was.  When both switches resolve, proceed returns true and the one
\* change of the simulation is the one call of sever_link, or of repair_link,
\* on the link: resolving it changed nothing.
C27_LinkResolutionFailure ==
  [][(ReplayStep /\ log[cursor].class \in LinkClasses) =>
       IF ~get_link_ok(log[cursor], sim)
       THEN /\ lastRet' = "KeyError"
            /\ pc' = "raised"
            /\ cursor' = cursor
            /\ sim'.topology_calls = sim.topology_calls
            /\ sim' = sim
       ELSE /\ lastRet' = "True"
            /\ sim'.topology_calls = Incr(sim.topology_calls, LinkCall(log[cursor]))
            /\ sim'.severed = IF log[cursor].class = "LinkFailure"
                              THEN sim.severed \cup {get_link(log[cursor], sim)}
                              ELSE sim.severed \ {get_link(log[cursor], sim)}
            /\ [sim' EXCEPT !.severed = sim.severed, !.topology_calls = sim.topology_calls] = sim]_vars

\* C27 witness: the run stopped on a LinkRecovery of an unknown switch after
\* a LinkFailure that severed its link; the link is still severed.
C27_Witness ==
  /\ pc = "raised"
  /\ lastRet = "KeyError"
  /\ cursor = 2
  /\ log[1].class = "LinkFailure"
  /\ log[2].class = "LinkRecovery"
  /\ ~get_link_ok(log[2], sim)
  /\ sim.severed = {get_link(log[1], sim)}
  /\ DOMAIN sim.topology_calls = {<<"sever_link", get_link(log[1], sim), "None">>}

\* how many times recover_switch was called on the switch and raised the error
Recoveries(simulation, dpid, raised) ==
  Count(simulation.topology_calls, <<"recover_switch", dpid, raised>>)

\* C28: SwitchRecovery never stalls or aborts on a timeout.  When
\* recover_switch raises TimeoutError, proceed returns true, the driver
\* advances and the switch is as failed as it was.  proceed never returns
\* false.  Any other error of recover_switch, and the error of get_switch on
\* an unknown switch, leaves proceed and stops the run on the event.
C28_SwitchRecoveryTimeout ==
  [][(ReplayStep /\ log[cursor].class = "SwitchRecovery") =>
       LET dpid == log[cursor].dpid
           timed_out == Recoveries(sim', dpid, "TimeoutError") > Recoveries(sim, dpid, "TimeoutError")
           failed == Recoveries(sim', dpid, "RuntimeError") > Recoveries(sim, dpid, "RuntimeError")
       IN  /\ lastRet' # "False" /\ pc' # "yield"
           /\ timed_out =>
                /\ lastRet' = "True"
                /\ cursor' = cursor + 1
                /\ pc' \in {"running", "done"}
                /\ sim'.crashed = sim.crashed
           /\ failed => (lastRet' = "RuntimeError" /\ pc' = "raised" /\ cursor' = cursor)
           /\ ~has_switch(sim, dpid) =>
                /\ lastRet' = "KeyError" /\ pc' = "raised" /\ cursor' = cursor
                /\ sim' = sim
           /\ (has_switch(sim, dpid) /\ ~timed_out /\ ~failed) =>
                /\ lastRet' = "True"
                /\ cursor' = cursor + 1
                /\ sim'.crashed = sim.crashed \ {dpid}]_vars

\* C28 witness: a completed run in which the SwitchRecovery of a failed
\* switch timed out and was passed; the switch is still failed.
C28_Witness ==
  /\ pc = "done"
  /\ Len(log) = 2
  /\ log[1].class = "SwitchFailure"
  /\ log[2].class = "SwitchRecovery"
  /\ log[2].dpid = log[1].dpid
  /\ Recoveries(sim, log[2].dpid, "TimeoutError") = 1
  /\ log[2].dpid \in sim.crashed
  /\ lastRet = "True"

====
